---------------------------- MODULE Spec2Model ----------------------------
(***************************************************************************)
(* Model of static/js/dashboard.js: initDashboard() starts two flows on    *)
(* one page.  The metrics flow fetches /dashboard/metrics and animates the *)
(* KPI elements; the details flow fetches /home/details, rebuilds the      *)
(* chart and activity regions and schedules renderCharts on the next       *)
(* frame.  The browser is modelled as a single-threaded event loop: a task *)
(* (a call of initDashboard, a network event, a frame) runs only when no   *)
(* promise reaction (microtask) is pending.                                *)
(***************************************************************************)
EXTENDS Integers, Sequences, FiniteSets, TLC

(***************************************************************************)
(* JavaScript values.  Numbers are non-negative rationals n/d; NaN is a    *)
(* number of its own.                                                      *)
(***************************************************************************)
Num(n, d) == [t |-> "number", n |-> n, d |-> d]
Whole(n) == Num(n, 1)
NaN == [t |-> "nan"]
Str(s) == [t |-> "string", s |-> s]
Null == [t |-> "null"]
Undefined == [t |-> "undefined"]

RECURSIVE Gcd(_, _)
Gcd(a, b) == IF b = 0 THEN a ELSE Gcd(b, a % b)

\* a rational in lowest terms
Reduce(n, d) == LET g == Gcd(n, d) IN Num(n \div g, d \div g)

RECURSIVE Pow10(_)
Pow10(k) == IF k = 0 THEN 1 ELSE 10 * Pow10(k - 1)

\* ToBoolean: what `v || 0` and `!v` test
Truthy(v) ==
  CASE v.t = "number" -> v.n # 0
    [] v.t = "nan" -> FALSE
    [] v.t = "string" -> v.s # ""
    [] v.t = "object" -> TRUE
    [] v.t = "array" -> TRUE
    [] v.t = "boolean" -> v.b
    [] OTHER -> FALSE

\* the numeric strings the model draws from, with their values
NumericStrings == {"12"}
StringValue(s) == IF s = "12" THEN Whole(12) ELSE Whole(0)

\* Number(v)
ToNumber(v) ==
  CASE v.t = "number" -> v
    [] v.t = "nan" -> NaN
    [] v.t = "string" -> IF v.s = "" THEN Whole(0)
                         ELSE IF v.s \in NumericStrings THEN StringValue(v.s)
                         ELSE NaN
    [] v.t = "null" -> Whole(0)
    [] OTHER -> NaN

\* Number(v || 0)
NumberOrZero(v) == IF Truthy(v) THEN ToNumber(v) ELSE Whole(0)

\* a * b on numbers
Times(a, b) ==
  IF a.t = "nan" \/ b.t = "nan" THEN NaN ELSE Reduce(a.n * b.n, a.d * b.d)

(***************************************************************************)
(* Number formatting (toLocaleString with "," grouping and "." decimals).  *)
(***************************************************************************)
Digit(k) == <<"0", "1", "2", "3", "4", "5", "6", "7", "8", "9">>[k + 1]

RECURSIVE Digits(_)
Digits(k) == IF k < 10 THEN Digit(k) ELSE Digits(k \div 10) \o Digit(k % 10)

\* the integer k with a "," between groups of three digits
RECURSIVE Grouped(_)
Grouped(k) ==
  IF k < 1000 THEN Digits(k)
  ELSE LET r == k % 1000
       IN Grouped(k \div 1000) \o "," \o Digit(r \div 100)
            \o Digit((r \div 10) % 10) \o Digit(r % 10)

\* the f digits of the fraction fp (out of 10^f), trailing zeros dropped
\* down to m digits
RECURSIVE Fraction(_, _, _)
Fraction(fp, f, m) ==
  IF f = 0 THEN ""
  ELSE IF f > m /\ fp % 10 = 0 THEN Fraction(fp \div 10, f - 1, m)
  ELSE Fraction(fp \div 10, f - 1, m) \o Digit(fp % 10)

\* Number.prototype.toLocaleString(undefined, {minimumFractionDigits: minF,
\* maximumFractionDigits: maxF}): rounds half away from zero to maxF digits
toLocaleString(x, minF, maxF) ==
  IF x.t = "nan" THEN "NaN"
  ELSE LET scaled == (2 * x.n * Pow10(maxF) + x.d) \div (2 * x.d)
           ip == scaled \div Pow10(maxF)
           frac == Fraction(scaled % Pow10(maxF), maxF, minF)
       IN IF frac = "" THEN Grouped(ip) ELSE Grouped(ip) \o "." \o frac

\* Math.round: the nearest integer, halves towards +Infinity
MathRound(x) ==
  IF x.t = "nan" THEN NaN ELSE Whole((2 * x.n + x.d) \div (2 * x.d))

formatValue(value, format) ==
  LET n == NumberOrZero(value)
  IN IF format = "money" THEN toLocaleString(n, 2, 2)
     ELSE IF format = "percent" THEN toLocaleString(n, 0, 1)
     ELSE toLocaleString(MathRound(n), 0, 0)

\* easeOutCubic(t) = 1 - (1 - t)^3, for 0 <= t <= 1
easeOutCubic(t) ==
  LET c == t.d - t.n
  IN Reduce(t.d * t.d * t.d - c * c * c, t.d * t.d * t.d)


(***************************************************************************)
(* The page and the two endpoints.                                         *)
(***************************************************************************)
\* how many times the page may call initDashboard()
MaxInits == 2
Inst == 1 .. MaxInits

\* countUp's duration (ms) and the times between two animation frames
Duration == 750
\* the longest time between two frames, in thirds of Duration
MaxFrameGap == 2
FrameSteps == {k * (Duration \div 3) : k \in 1 .. MaxFrameGap}

\* the .kpi[data-key] elements of the page, in document order, with their
\* data-key and data-format attributes ("" when the attribute is absent)
KpiElements == <<"kpiOrders", "kpiRevenue", "kpiRate">>
Els == {KpiElements[k] : k \in 1 .. Len(KpiElements)}
DataKey(el) ==
  CASE el = "kpiOrders" -> "orders"
    [] el = "kpiRevenue" -> "revenue"
    [] OTHER -> "rate"
DataFormat(el) ==
  CASE el = "kpiOrders" -> ""
    [] el = "kpiRevenue" -> "money"
    [] OTHER -> "percent"
Keys == {"orders", "revenue", "rate"}

\* what the page shows before any flow has touched it
PlaceholderText == "..."
InitialRegion == [k |-> "initial", text |-> ""]

Obj(ok, counts, error) ==
  [t |-> "object", ok |-> ok, counts |-> counts, error |-> error]
Counts(orders, revenue, rate) ==
  [t |-> "object",
   f |-> [key \in Keys |-> CASE key = "orders" -> orders
                             [] key = "revenue" -> revenue
                             [] OTHER -> rate]]
True == [t |-> "boolean", b |-> TRUE]
False == [t |-> "boolean", b |-> FALSE]
\* a body that is not JSON
Invalid == [t |-> "invalid"]

\* bodies of /dashboard/metrics whose counts are numbers, null or missing
MetricsBodies ==
  { Obj(True, Counts(Num(12345, 10), Num(12345, 10), Num(4525, 100)), Undefined),
    Obj(True, Counts(Whole(7), Undefined, Null), Undefined),
    Obj(False, Undefined, Str("Unauthorized")),
    Obj(True, Undefined, Undefined),
    Null,
    Invalid }
\* ... and bodies whose counts are strings
StringBodies ==
  { Obj(True, Counts(Str("abc"), Str(""), Str("12")), Undefined) }

Activity(text) == [t |-> "object", text |-> text]
Array(a) == [t |-> "array", a |-> a]
Details(debt, paid, acts, error) ==
  [t |-> "object", total_debt |-> debt, total_paid |-> paid,
   recent_activities |-> acts, error |-> error]
\* bodies of /home/details
DetailsBodies ==
  { Details(Whole(1000), Whole(250),
            Array(<<Activity("Order 1"), Activity("Payment 2")>>), Undefined),
    Details(Whole(0), Whole(5), Array(<<>>), Undefined),
    Details(Whole(1000), Whole(250), Array(<<Activity("Order 1"), Null>>),
            Undefined),
    Details(Undefined, Undefined, Undefined, Str("Server exploded")),
    Null,
    Invalid }

\* message texts of the errors the platform throws
NetworkErrorText == "Failed to fetch"
AbortErrorText == "The user aborted a request."
SyntaxErrorText == "Unexpected token < in JSON"
TypeErrorText == "Cannot read properties of null"

VARIABLES
  reducedMotion,   \* the page's (prefers-reduced-motion: reduce) media query
  inits,           \* calls of initDashboard() so far
  prefersReduced,  \* [Inst]: the closure's prefersReduced
  metricsAbort,    \* [Inst]: the closure's metricsAbort, 0 for null
  aborted,         \* [Inst]: controller c's signal is aborted
  inFlightAtCall,  \* [Inst]: the calls in flight when this call was issued
  mflow,           \* [Inst]: fetchMetricsOnce().then(applyMetrics).catch()
  dflow,           \* [Inst]: loadDetails()'s promise chain
  anim,            \* [Inst][Els]: countUp's start, to, format and last t
  kpiText,         \* [Els]: textContent
  kpiPlaceholder,  \* [Els]: classList holds 'placeholder'
  chartSection,    \* #chart-section
  activitySection, \* #activity-section
  frames,          \* callbacks requestAnimationFrame holds for the next frame
  running,         \* callbacks of the current frame still to run
  now,             \* the clock (ms)
  console,         \* console.error entries
  applyLog,        \* closures whose applyMetrics ran with counts
  renderLog        \* calls of renderCharts

vars == <<reducedMotion, inits, prefersReduced, metricsAbort, aborted,
          inFlightAtCall, mflow, dflow, anim, kpiText, kpiPlaceholder,
          chartSection, activitySection, frames, running, now, console,
          applyLog, renderLog>>

IdleFlow ==
  [pc |-> "idle", resOk |-> FALSE, body |-> Undefined, data |-> Undefined,
   error |-> ""]
NoAnim == [start |-> 0, to |-> Whole(0), format |-> "", t |-> Undefined]

Init ==
  /\ reducedMotion \in BOOLEAN
  /\ inits = 0
  /\ prefersReduced = [i \in Inst |-> FALSE]
  /\ metricsAbort = [i \in Inst |-> 0]
  /\ aborted = [i \in Inst |-> FALSE]
  /\ inFlightAtCall = [i \in Inst |-> {}]
  /\ mflow = [i \in Inst |-> IdleFlow]
  /\ dflow = [i \in Inst |-> IdleFlow]
  /\ anim = [i \in Inst |-> [el \in Els |-> NoAnim]]
  /\ kpiText = [el \in Els |-> PlaceholderText]
  /\ kpiPlaceholder = [el \in Els |-> TRUE]
  /\ chartSection = InitialRegion
  /\ activitySection = InitialRegion
  /\ frames = <<>>
  /\ running = <<>>
  /\ now = 0
  /\ console = <<>>
  /\ applyLog = <<>>
  /\ renderLog = <<>>

\* a promise reaction is queued: it runs before the next task
MicroPending ==
  \E i \in Inst : \/ mflow[i].pc \in {"resolved", "rejected"}
                  \/ dflow[i].pc \in {"then", "catch"}

\* the event loop can start a task
TaskReady == ~MicroPending /\ running = <<>>

\* the metrics requests that are sent and neither settled nor read
InFlight == {j \in Inst : mflow[j].pc \in {"fetching", "reading"}}

(***************************************************************************)
(* initDashboard(): lines 2-3, then fetchMetricsOnce() up to its first     *)
(* await (lines 43-45) with the chain of lines 183-185, then loadDetails() *)
(* up to its fetch (line 52).  The closure of call i owns metricsAbort[i]. *)
(***************************************************************************)
\* line 43: if (metricsAbort) metricsAbort.abort()
AbortPrevious(ab, ctrl) == IF ctrl # 0 THEN [ab EXCEPT ![ctrl] = TRUE] ELSE ab

initDashboard(i) ==
  /\ TaskReady
  /\ i = inits + 1
  /\ inits' = i
  /\ prefersReduced' = [prefersReduced EXCEPT ![i] = reducedMotion]
  /\ aborted' = AbortPrevious(aborted, metricsAbort[i])
  /\ metricsAbort' = [metricsAbort EXCEPT ![i] = i]
  /\ inFlightAtCall' = [inFlightAtCall EXCEPT ![i] = InFlight]
  /\ mflow' = [mflow EXCEPT ![i].pc = "fetching"]
  /\ dflow' = [dflow EXCEPT ![i].pc = "fetching"]
  /\ UNCHANGED <<reducedMotion, anim, kpiText, kpiPlaceholder, chartSection,
                 activitySection, frames, running, now, console, applyLog,
                 renderLog>>

\* the page calls initDashboard() once
Load == inits = 0 /\ initDashboard(1)

\* the page calls initDashboard() again
Reload == \E i \in Inst : inits >= 1 /\ initDashboard(i)

(***************************************************************************)
(* The metrics flow.                                                       *)
(***************************************************************************)
MetricsDefaultText == "Failed to fetch metrics."

\* data?.error || dflt
ErrorOr(data, dflt) ==
  IF data.t = "object" /\ Truthy(data.error) THEN data.error.s ELSE dflt

Rejected(text) == [pc |-> "rejected", data |-> Undefined, error |-> text]
Resolved(value) == [pc |-> "resolved", data |-> value, error |-> ""]

\* lines 46-48: what fetchMetricsOnce settles to once the body is read
fetchMetricsOnce(resOk, body) ==
  IF body.t = "invalid" THEN Rejected(SyntaxErrorText)
  ELSE IF ~resOk THEN Rejected(ErrorOr(body, MetricsDefaultText))
  ELSE IF body.t # "object" THEN Rejected(TypeErrorText)
  ELSE IF ~Truthy(body.ok) \/ ~Truthy(body.counts)
       THEN Rejected(ErrorOr(body, MetricsDefaultText))
  ELSE Resolved(body.counts)

Settle(flow, out) ==
  [flow EXCEPT !.pc = out.pc, !.data = out.data, !.error = out.error]

\* line 45: fetch() settles: it rejects when the signal is aborted or the
\* network fails, and else resolves with a response
MetricsFetchSettles(i) ==
  /\ TaskReady
  /\ mflow[i].pc = "fetching"
  /\ IF aborted[i]
     THEN mflow' = [mflow EXCEPT ![i] = Settle(@, Rejected(AbortErrorText))]
     ELSE \/ mflow' = [mflow EXCEPT ![i] = Settle(@, Rejected(NetworkErrorText))]
          \/ \E ok \in BOOLEAN :
               mflow' = [mflow EXCEPT ![i].pc = "reading", ![i].resOk = ok]
  /\ UNCHANGED <<reducedMotion, inits, prefersReduced, metricsAbort, aborted,
                 inFlightAtCall, dflow, anim, kpiText, kpiPlaceholder,
                 chartSection, activitySection, frames, running, now, console,
                 applyLog, renderLog>>

\* line 46: res.json() settles, then lines 47-48 run
MetricsBodyRead(i, bodies) ==
  /\ TaskReady
  /\ mflow[i].pc = "reading"
  /\ IF aborted[i]
     THEN mflow' = [mflow EXCEPT ![i] = Settle(@, Rejected(AbortErrorText))]
     ELSE \E body \in bodies :
            mflow' = [mflow EXCEPT
                        ![i] = Settle([@ EXCEPT !.body = body],
                                      fetchMetricsOnce(@.resOk, body))]
  /\ UNCHANGED <<reducedMotion, inits, prefersReduced, metricsAbort, aborted,
                 inFlightAtCall, dflow, anim, kpiText, kpiPlaceholder,
                 chartSection, activitySection, frames, running, now, console,
                 applyLog, renderLog>>

\* line 35: el.getAttribute('data-format') || 'int'
FormatOf(el) == IF DataFormat(el) = "" THEN "int" ELSE DataFormat(el)

\* line 36: counts[key] ?? 0
ValueOf(counts, key) ==
  IF counts.f[key].t \in {"undefined", "null"} THEN Whole(0) ELSE counts.f[key]

\* lines 15-17: the text countUp writes before it returns
countUpText(reduced, old, endValue, format) ==
  IF reduced THEN formatValue(endValue, format) ELSE old

\* lines 19-21: the state tick closes over
countUpAnim(reduced, old, endValue, format) ==
  IF reduced THEN old
  ELSE [start |-> now, to |-> NumberOrZero(endValue), format |-> format,
        t |-> Undefined]

TickOf(i, el) == [f |-> "tick", i |-> i, el |-> el]
RenderOf(i) == [f |-> "render", i |-> i, el |-> ""]

\* a variant of lines 15-18 without the return
countUpFramesNoReturn(reduced, i) ==
  [k \in 1 .. Len(KpiElements) |-> TickOf(i, KpiElements[k])]

\* line 29: the frames countUp requests, one per element in document order
countUpFrames(reduced, i) ==
  IF reduced THEN <<>>
  ELSE [k \in 1 .. Len(KpiElements) |-> TickOf(i, KpiElements[k])]

\* lines 31-41, the reaction of .then(applyMetrics)
applyMetrics(i) ==
  LET counts == mflow[i].data
      reduced == prefersReduced[i]
  IN /\ mflow[i].pc = "resolved"
     /\ mflow' = [mflow EXCEPT ![i].pc = "applied"]
     /\ applyLog' = Append(applyLog, i)
     /\ IF ~Truthy(counts)
        THEN UNCHANGED <<kpiText, kpiPlaceholder, anim, frames>>
        ELSE /\ kpiPlaceholder' = [el \in Els |-> FALSE]
             /\ kpiText' = [el \in Els |->
                  countUpText(reduced, kpiText[el],
                              ValueOf(counts, DataKey(el)), FormatOf(el))]
             /\ anim' = [anim EXCEPT ![i] = [el \in Els |->
                  countUpAnim(reduced, @[el],
                              ValueOf(counts, DataKey(el)), FormatOf(el))]]
             /\ frames' = frames \o countUpFrames(reduced, i)
     /\ UNCHANGED <<reducedMotion, inits, prefersReduced, metricsAbort,
                    aborted, inFlightAtCall, dflow, chartSection,
                    activitySection, running, now, console, renderLog>>

\* a variant of line 185 that logs the error
MetricsCatchLogs(i) ==
  /\ mflow[i].pc = "rejected"
  /\ mflow' = [mflow EXCEPT ![i].pc = "failed"]
  /\ console' = Append(console, "Metrics Error: " \o mflow[i].error)
  /\ UNCHANGED <<reducedMotion, inits, prefersReduced, metricsAbort, aborted,
                 inFlightAtCall, dflow, anim, kpiText, kpiPlaceholder,
                 chartSection, activitySection, frames, running, now,
                 applyLog, renderLog>>

\* line 185, the reaction of .catch(() => {})
MetricsCatch(i) ==
  /\ mflow[i].pc = "rejected"
  /\ mflow' = [mflow EXCEPT ![i].pc = "failed"]
  /\ UNCHANGED <<reducedMotion, inits, prefersReduced, metricsAbort, aborted,
                 inFlightAtCall, dflow, anim, kpiText, kpiPlaceholder,
                 chartSection, activitySection, frames, running, now, console,
                 applyLog, renderLog>>

(***************************************************************************)
(* Animation frames.  The callbacks requested before a frame run in that   *)
(* frame, in order, with the frame's timestamp; what they request runs in  *)
(* the next frame.                                                         *)
(***************************************************************************)
BeginFrame(dt) ==
  /\ TaskReady
  /\ frames # <<>>
  /\ now' = now + dt
  /\ running' = frames
  /\ frames' = <<>>
  /\ UNCHANGED <<reducedMotion, inits, prefersReduced, metricsAbort, aborted,
                 inFlightAtCall, mflow, dflow, anim, kpiText, kpiPlaceholder,
                 chartSection, activitySection, console, applyLog, renderLog>>

\* a variant of line 23 without Math.min
ProgressUnclamped(start) == Reduce(now - start, Duration)

\* line 23: Math.min((now - start) / duration, 1)
Progress(start) ==
  IF now - start >= Duration THEN Whole(1) ELSE Reduce(now - start, Duration)

\* line 27: if (t < 1) requestAnimationFrame(tick)
TickAgain(t) == t.n < t.d

\* lines 22-28
tick ==
  /\ running # <<>>
  /\ Head(running).f = "tick"
  /\ LET cb == Head(running)
         a == anim[cb.i][cb.el]
         t == Progress(a.start)
         current == Times(a.to, easeOutCubic(t))
     IN /\ kpiText' = [kpiText EXCEPT ![cb.el] = formatValue(current, a.format)]
        /\ anim' = [anim EXCEPT ![cb.i][cb.el].t = t]
        /\ frames' = IF TickAgain(t) THEN Append(frames, cb) ELSE frames
  /\ running' = Tail(running)
  /\ UNCHANGED <<reducedMotion, inits, prefersReduced, metricsAbort, aborted,
                 inFlightAtCall, mflow, dflow, kpiPlaceholder, chartSection,
                 activitySection, now, console, applyLog, renderLog>>

(***************************************************************************)
(* The details flow.                                                       *)
(***************************************************************************)
DetailsDefaultText == "Failed to fetch dashboard data."

\* fetch('/home/details') settles (line 52); on a response the first
\* reaction (lines 53-59) starts reading the body
DetailsFetchSettles(i) ==
  /\ TaskReady
  /\ dflow[i].pc = "fetching"
  /\ \/ dflow' = [dflow EXCEPT ![i].pc = "catch", ![i].error = NetworkErrorText]
     \/ \E ok \in BOOLEAN :
          dflow' = [dflow EXCEPT ![i].pc = "reading", ![i].resOk = ok]
  /\ UNCHANGED <<reducedMotion, inits, prefersReduced, metricsAbort, aborted,
                 inFlightAtCall, mflow, anim, kpiText, kpiPlaceholder,
                 chartSection, activitySection, frames, running, now, console,
                 applyLog, renderLog>>

\* lines 54-58: what the first reaction settles to once the body is read
detailsResponse(resOk, body) ==
  IF ~resOk
  THEN \* response.json().catch(() => ({})), then the throw of line 56
       [pc |-> "catch", data |-> Undefined,
        error |-> ErrorOr(body, DetailsDefaultText)]
  ELSE IF body.t = "invalid"
       THEN [pc |-> "catch", data |-> Undefined, error |-> SyntaxErrorText]
  ELSE [pc |-> "then", data |-> body, error |-> ""]

DetailsBodyRead(i, bodies) ==
  /\ TaskReady
  /\ dflow[i].pc = "reading"
  /\ \E body \in bodies :
       dflow' = [dflow EXCEPT
                   ![i] = Settle([@ EXCEPT !.body = body],
                                 detailsResponse(@.resOk, body))]
  /\ UNCHANGED <<reducedMotion, inits, prefersReduced, metricsAbort, aborted,
                 inFlightAtCall, mflow, anim, kpiText, kpiPlaceholder,
                 chartSection, activitySection, frames, running, now, console,
                 applyLog, renderLog>>

\* lines 63-65
Percentage(data) ==
  IF data.total_debt.t = "number" /\ data.total_debt.n > 0
  THEN IF data.total_paid.t = "number"
       THEN MathRound(Times(Times(data.total_paid,
                                  Num(data.total_debt.d, data.total_debt.n)),
                            Whole(100)))
       ELSE NaN
  ELSE Whole(0)

\* `${v}` for the values the details bodies hold (whole numbers)
TemplateText(v) ==
  CASE v.t = "number" -> Digits(v.n \div v.d)
    [] v.t = "undefined" -> "undefined"
    [] OTHER -> "null"

\* lines 67-83: the three chart cards, each with its canvas
ChartMarkup(data) ==
  [k |-> "charts",
   text |-> "Out of GHS " \o TemplateText(data.total_debt)
              \o ", you've collected GHS " \o TemplateText(data.total_paid)]

\* the first entry of a that is no object (reading act.color throws), or 0
RECURSIVE FirstBad(_, _)
FirstBad(a, k) ==
  IF k > Len(a) THEN 0
  ELSE IF a[k].t # "object" THEN k
  ELSE FirstBad(a, k + 1)

\* lines 88-106: the list with the items appended before a throw, if any
ActivityList(a) ==
  LET bad == FirstBad(a, 1)
      n == IF bad = 0 THEN Len(a) ELSE bad - 1
  IN [k |-> "list", items |-> [j \in 1 .. n |-> a[j].text]]

\* line 108
NoActivities == [k |-> "empty", text |-> "No recent activities"]

\* line 87
HasActivities(data) ==
  /\ data.recent_activities.t = "array"
  /\ Len(data.recent_activities.a) > 0

\* a variant of line 85 that requests no frame
ScheduleRenderNever(i) == frames

\* line 85
ScheduleRender(i) == Append(frames, RenderOf(i))

\* lines 60-110, the reaction of the second .then
detailsThen(i) ==
  LET data == dflow[i].data
  IN /\ dflow[i].pc = "then"
     /\ IF data.t # "object"
        THEN \* line 63 throws: data.total_debt of null
             /\ dflow' = [dflow EXCEPT ![i].pc = "catch",
                                       ![i].error = TypeErrorText]
             /\ UNCHANGED <<chartSection, activitySection, frames>>
        ELSE /\ chartSection' = ChartMarkup(data)
             /\ frames' = ScheduleRender(i)
             /\ IF HasActivities(data)
                THEN /\ activitySection' =
                          ActivityList(data.recent_activities.a)
                     /\ dflow' =
                          IF FirstBad(data.recent_activities.a, 1) = 0
                          THEN [dflow EXCEPT ![i].pc = "done"]
                          ELSE [dflow EXCEPT ![i].pc = "catch",
                                             ![i].error = TypeErrorText]
                ELSE /\ activitySection' = NoActivities
                     /\ dflow' = [dflow EXCEPT ![i].pc = "done"]
     /\ UNCHANGED <<reducedMotion, inits, prefersReduced, metricsAbort,
                    aborted, inFlightAtCall, mflow, anim, kpiText,
                    kpiPlaceholder, running, now, console, applyLog,
                    renderLog>>

\* line 113
ChartError(text) == [k |-> "error", text |-> "Chart load failed: " \o text]

\* a variant of line 114 that leaves the activity region as it is
ActivityErrorSkipped(text) == activitySection

\* line 114
ActivityError(text) == [k |-> "error", text |-> "Activity load failed: " \o text]

\* lines 111-115, the reaction of .catch
detailsCatch(i) ==
  /\ dflow[i].pc = "catch"
  /\ console' = Append(console, "Dashboard Error: " \o dflow[i].error)
  /\ chartSection' = ChartError(dflow[i].error)
  /\ activitySection' = ActivityError(dflow[i].error)
  /\ dflow' = [dflow EXCEPT ![i].pc = "failed"]
  /\ UNCHANGED <<reducedMotion, inits, prefersReduced, metricsAbort, aborted,
                 inFlightAtCall, mflow, anim, kpiText, kpiPlaceholder, frames,
                 running, now, applyLog, renderLog>>

\* lines 118-181, run by the frame callback of line 85
renderCharts ==
  /\ running # <<>>
  /\ Head(running).f = "render"
  /\ LET i == Head(running).i
     IN renderLog' = Append(renderLog,
          [i |-> i,
           canvases |-> chartSection.k = "charts",
           activity |-> activitySection.k,
           data |-> dflow[i].data,
           percentage |-> Percentage(dflow[i].data)])
  /\ running' = Tail(running)
  /\ UNCHANGED <<reducedMotion, inits, prefersReduced, metricsAbort, aborted,
                 inFlightAtCall, mflow, dflow, anim, kpiText, kpiPlaceholder,
                 chartSection, activitySection, frames, now, console,
                 applyLog>>

(***************************************************************************)
(* Specifications.                                                         *)
(***************************************************************************)
\* what happens on the page after initDashboard() was called
Flows(metrics, details, steps) ==
  \/ \E i \in Inst : MetricsFetchSettles(i)
  \/ \E i \in Inst : MetricsBodyRead(i, metrics)
  \/ \E i \in Inst : applyMetrics(i)
  \/ \E i \in Inst : MetricsCatch(i)
  \/ \E i \in Inst : DetailsFetchSettles(i)
  \/ \E i \in Inst : DetailsBodyRead(i, details)
  \/ \E i \in Inst : detailsThen(i)
  \/ \E i \in Inst : detailsCatch(i)
  \/ \E dt \in steps : BeginFrame(dt)
  \/ tick
  \/ renderCharts

\* one page load: initDashboard() is called once, counts are numbers
Next == Load \/ Flows(MetricsBodies, DetailsBodies, FrameSteps)
Spec == Init /\ [][Next]_vars

\* frames keep coming and promise reactions run
TickEnabled == running # <<>> /\ Head(running).f = "tick"
Fairness ==
  /\ WF_vars(\E dt \in FrameSteps : BeginFrame(dt))
  \* weak fairness of tick, with ENABLED <<tick>>_vars written as TickEnabled
  /\ ([]<>(~TickEnabled) \/ []<><<tick>>_vars)
  /\ WF_vars(renderCharts)
  /\ WF_vars(\E i \in Inst : applyMetrics(i))
  /\ WF_vars(\E i \in Inst : MetricsCatch(i))
  /\ WF_vars(\E i \in Inst : detailsThen(i))
  /\ WF_vars(\E i \in Inst : detailsCatch(i))
FairSpec == Spec /\ Fairness

\* one page load where the server may also send strings as counts
NextAnyCounts ==
  Load \/ Flows(MetricsBodies \cup StringBodies, DetailsBodies, FrameSteps)
SpecAnyCounts == Init /\ [][NextAnyCounts]_vars

\* the page may call initDashboard() again while requests are in flight; the
\* server answers with well-formed bodies or with a body that is not JSON,
\* and a frame completes an animation
ReinitMetricsBodies ==
  {b \in MetricsBodies : b.t = "invalid" \/ (b.t = "object" /\ Truthy(b.counts))}
ReinitDetailsBodies ==
  {b \in DetailsBodies : b.t = "invalid" \/ (b.t = "object" /\ b.total_debt = Whole(0))}
NextReinit ==
  Load \/ Reload \/ Flows(ReinitMetricsBodies, ReinitDetailsBodies, {Duration})
SpecReinit == Init /\ [][NextReinit]_vars

(***************************************************************************)
(* The claims.                                                             *)
(***************************************************************************)
\* the first closure's flows, the ones of a single page load
M == mflow[1]
D == dflow[1]

\* the callbacks held for the next frame or still to run in this one
Scheduled == {frames[k] : k \in 1 .. Len(frames)}
               \cup {running[k] : k \in 1 .. Len(running)}

\* C1: when a call of fetchMetricsOnce is issued while an earlier call is in
\* flight, the counts of the earlier call are never passed to applyMetrics
C1_StaleCountsNeverApplied ==
  \A k \in 1 .. Len(applyLog) :
    \A j \in Inst : applyLog[k] \notin inFlightAtCall[j]

\* C2: at most one metrics request is outstanding and not cancelled, and a
\* call aborts the controller of the call before it
C2_OneCurrentRequest ==
  /\ Cardinality({i \in InFlight : ~aborted[i]}) <= 1
  /\ \A j \in Inst : \A i \in inFlightAtCall[j] : aborted[i]

\* the value and the format the claims expect for a KPI element
TargetOf(el) ==
  LET v == M.data.f[DataKey(el)] IN IF v = Undefined THEN Whole(0) ELSE v
DeclaredFormat(el) ==
  CASE el = "kpiRevenue" -> "money"
    [] el = "kpiRate" -> "percent"
    [] OTHER -> "int"
FinalText(el) == formatValue(TargetOf(el), DeclaredFormat(el))

Animated == M.pc = "applied" /\ ~prefersReduced[1]
AnimationOver ==
  Animated /\ \A el \in Els : anim[1][el].t = Whole(1) /\ TickOf(1, el) \notin Scheduled

\* while a tick has not run with t = 1 it is scheduled; the tick with t = 1
\* writes the formatted target and schedules no frame
C3_FinalFrame ==
  Animated =>
    \A el \in Els :
      IF anim[1][el].t = Whole(1)
      THEN /\ kpiText[el] = FinalText(el)
           /\ TickOf(1, el) \notin {frames[k] : k \in 1 .. Len(frames)}
      ELSE TickOf(1, el) \in Scheduled

\* C3: after a successful metrics fetch without reduced motion, with frames
\* arriving, every KPI element eventually shows its formatted target; the
\* tick that writes it has t = 1 and schedules no frame, and the text stays
C3_CountUpReachesTarget ==
  /\ [] C3_FinalFrame
  /\ Animated ~> [] (AnimationOver /\ \A el \in Els : kpiText[el] = FinalText(el))

C3_Witness ==
  /\ AnimationOver
  /\ kpiText["kpiOrders"] = "1,235"
  /\ kpiText["kpiRevenue"] = "1,234.50"
  /\ kpiText["kpiRate"] = "45.3"

\* C4: with reduced motion countUp writes the final text in the step of the
\* call and requests no frame, so no other text is ever shown; without it
\* nothing is written before the first tick runs
C4_ReducedMotionBranch ==
  /\ prefersReduced[1] =>
       /\ \A el \in Els :
            kpiText[el] = IF M.pc = "applied" THEN FinalText(el)
                          ELSE PlaceholderText
       /\ \A el \in Els : TickOf(1, el) \notin Scheduled
  /\ Animated =>
       \A el \in Els :
         anim[1][el].t = Undefined =>
           kpiText[el] = PlaceholderText /\ TickOf(1, el) \in Scheduled

C4_Witness ==
  /\ prefersReduced[1]
  /\ M.pc = "applied"
  /\ kpiText["kpiRevenue"] = "1,234.50"
  /\ frames = <<>>

\* C5: once the body is read, fetchMetricsOnce resolves with counts exactly
\* when the status is a success, ok is truthy and counts is present, and
\* else fails with the body's error text or the default text
C5_MetricsOutcome ==
  M.body # Undefined =>
    LET wellFormed == /\ M.resOk
                      /\ M.body.t = "object"
                      /\ M.body.ok = True
                      /\ M.body.counts # Undefined
        said == IF M.body.t = "object" /\ M.body.error # Undefined
                THEN M.body.error.s ELSE "Failed to fetch metrics."
    IN IF wellFormed
       THEN M.pc \in {"resolved", "applied"} /\ M.data = M.body.counts
       ELSE M.pc \in {"rejected", "failed"} /\ M.error = said

\* C6: a failure of the metrics flow is swallowed: applyMetrics is not
\* called, no KPI element changes, nothing is logged and the details flow
\* goes on; a failure of the details flow does not stop applyMetrics
C6_MetricsFailureSwallowed ==
  /\ M.pc \in {"rejected", "failed"} =>
       /\ applyLog = <<>>
       /\ \A el \in Els : kpiText[el] = PlaceholderText /\ kpiPlaceholder[el]
       /\ \A el \in Els : TickOf(1, el) \notin Scheduled
       /\ Len(console) = IF D.pc = "failed" THEN 1 ELSE 0
       /\ D.pc # "idle"
  /\ M.pc = "failed" /\ running = <<>> =>
       /\ D.pc = "fetching" => ENABLED DetailsFetchSettles(1)
       /\ D.pc = "reading" => ENABLED DetailsBodyRead(1, DetailsBodies)
       /\ D.pc = "then" => ENABLED detailsThen(1)
       /\ D.pc = "catch" => ENABLED detailsCatch(1)
  /\ D.pc \in {"catch", "failed"} /\ M.pc = "resolved" =>
       ENABLED applyMetrics(1)

C6_Witness ==
  /\ M.pc = "failed"
  /\ M.error = "Failed to fetch metrics."
  /\ D.pc = "done"
  /\ renderLog # <<>>

\* C7: when the details flow has failed, both regions show an error message
\* with the error's text and the error is logged once; never is one region
\* an error message and the other not
C7_BothRegionsShowError ==
  /\ D.pc = "failed" =>
       /\ chartSection = [k |-> "error", text |-> "Chart load failed: " \o D.error]
       /\ activitySection =
            [k |-> "error", text |-> "Activity load failed: " \o D.error]
       /\ console = <<"Dashboard Error: " \o D.error>>
  /\ chartSection.k = "error" <=> activitySection.k = "error"
  /\ D.pc # "failed" => console = <<>> /\ chartSection.k # "error"

C7_Witness ==
  /\ D.pc = "failed"
  /\ D.data # Undefined
  /\ D.data.t = "object"
  /\ activitySection.text = "Activity load failed: Cannot read properties of null"

\* C8: when the details flow ends in the failure handler renderCharts is
\* never called; renderCharts only runs while the chart region holds the
\* three canvases
C8_NoRenderOnFailure ==
  /\ D.pc \in {"catch", "failed"} => renderLog = <<>>
  /\ \A k \in 1 .. Len(renderLog) : renderLog[k].canvases

\* C9 as stated: renderCharts has run by the end of the step that rebuilds
\* the chart region, before the activity region is rebuilt
C9_RenderIsSynchronous ==
  /\ chartSection.k = "charts" => renderLog # <<>>
  /\ \A k \in 1 .. Len(renderLog) : renderLog[k].activity = "initial"

\* C9, amended: the step that rebuilds the chart region only schedules
\* renderCharts for the next frame and rebuilds the activity region; on a
\* successful details fetch renderCharts runs once, in a later frame, with
\* the fetched data and its percentage
C9_RenderOnNextFrame ==
  /\ D.pc = "done" =>
       /\ Len(renderLog) <= 1
       /\ renderLog = <<>> <=> RenderOf(1) \in Scheduled
       /\ \A k \in 1 .. Len(renderLog) :
            /\ renderLog[k].activity \in {"list", "empty"}
            /\ renderLog[k].canvases
            /\ renderLog[k].data = D.body
            /\ D.body.total_debt = Whole(1000) /\ D.body.total_paid = Whole(250)
                 => renderLog[k].percentage = Whole(25)
            /\ D.body.total_debt = Whole(0) => renderLog[k].percentage = Whole(0)
  /\ D.pc \in {"idle", "fetching", "reading", "then"} => renderLog = <<>>

C9_Witness ==
  /\ D.pc = "done"
  /\ Len(renderLog) = 1
  /\ renderLog[1].percentage = Whole(25)
  /\ renderLog[1].activity = "list"
  /\ M.pc = "applied"

\* the end values C10 is about: undefined, null, empty or a non-numeric string
Unusable(v) ==
  \/ v.t \in {"undefined", "null"}
  \/ v.t = "string" /\ v.s \notin {"12"}

\* C10: for a missing or non-numeric end value the final text is the
\* formatted value of 0, with reduced motion and at the end of the animation
C10_ZeroFallback ==
  M.pc = "applied" =>
    \A el \in Els :
      Unusable(M.data.f[DataKey(el)])
        /\ (prefersReduced[1] \/ anim[1][el].t = Whole(1))
        => kpiText[el] = formatValue(Whole(0), DeclaredFormat(el))
=============================================================================
